---- MODULE Spec2Model ----
(***************************************************************************)
(* A model of pycasso (src/pycasso.py, src/provider.py): Pycasso.run() as *)
(* a sequence of steps, and the static helpers max_area, set_tuple_bottom, *)
(* set_tuple_sides, ceiling_multiple, add_status_icon and parse_subject.   *)
(*                                                                         *)
(* Coordinates.  run() computes its geometry with Python's true division   *)
(* ((epd.width - image_base.width) / 2, epd.width / 2), so every value is  *)
(* a multiple of one half.  The model holds such a value v as the integer  *)
(* 2*v ("half-pixels"); Px(n) is the whole number n in that unit.  Image   *)
(* sizes, the icon's box and the rectangles handed to max_area by the      *)
(* MaxArea specification are plain integers.                               *)
(*                                                                         *)
(* Text.  A string is a sequence of character codes (ord), so that the     *)
(* octal escapes of a re.sub replacement template produce the character    *)
(* they produce in Python.                                                 *)
(***************************************************************************)
EXTENDS Integers, Sequences, FiniteSets, TLC

(***************************************************************************)
(* Bounds of the model.                                                    *)
(***************************************************************************)
MaxDim == 4
MaxNegWeight == 1
MaxWeight == 2
MaxTextW == 3
MaxTextH == 2
MaxPadding == 2
MaxLoc == 1
MaxIconPadding == 2
MaxIconSize == 3
MaxCoord == 1
MaxRects == 2
MaxLen == 4
MaxSource == 3
MaxMultiple == 3

(***************************************************************************)
(* Small helpers.                                                          *)
(***************************************************************************)
Px(n) == 2 * n

Min2(x, y) == IF x <= y THEN x ELSE y

Max2(x, y) == IF x >= y THEN x ELSE y

None == <<>>

VARIABLES
  pc,            \* position in run(), or in the helper under study
  epd,           \* the display: [width, height]
  self,          \* the Pycasso object's configuration fields
  provider_type, \* result of random.choices
  image_base,    \* [width, height, ox, oy]: size, and where the source's
                 \* top-left pixel sits in the current image
  width_diff, height_diff, image_crop,   \* half-pixels
  artist_text, title_text,
  artist_box, title_box, draw_box,       \* half-pixels
  draw,          \* the drawing surface: the primitives drawn so far
  epd_calls,     \* calls made on the display driver
  multiple,      \* StabilityConst.MULTIPLE.value
  fetch_height, fetch_width, \* size asked of the provider
  saved,         \* image_base.save has written the image
  area_list, tup,            \* max_area: argument and result
  subject, brackets, raised, \* parse_subject: string, groups left, exception
  arg, options   \* history: parse_subject's argument, the options drawn

vars == <<pc, epd, self, provider_type, image_base, width_diff, height_diff,
          image_crop, artist_text, title_text, artist_box, title_box,
          draw_box, draw, epd_calls, multiple, fetch_height, fetch_width,
          saved, area_list, tup, subject, brackets, raised, arg, options>>

runVars == <<epd, self, provider_type, image_base, width_diff, height_diff,
             image_crop, artist_text, title_text, artist_box, title_box,
             draw_box, draw, epd_calls>>

fetchVars == <<multiple, fetch_height, fetch_width, saved>>

areaVars == <<area_list, tup>>

parseVars == <<subject, brackets, raised, arg, options>>

(***************************************************************************)
(* Constants of the program.                                               *)
(***************************************************************************)
\* ProvidersConst.*.value, in the order of provider_types (run, 413-418)
EXTERNAL == "external"

HISTORIC == "historic"

STABLE == "stable"

DALLE == "dalle"

provider_types == <<EXTERNAL, HISTORIC, STABLE, DALLE>>

\* DisplayShape.*.value, as --displayshape documents them (parse_args, 175)
SQUARE == 0

CROSS == 1

TRIANGLE == 2

CIRCLE == 3

\* defaults of add_status_icon's icon_width and icon_opacity (316)
ICON_WIDTH == 3

ICON_OPACITY == 150

(***************************************************************************)
(* The start of run() (380-409).  parse_args and load_config fill the      *)
(* configuration, which is self here; args.norun (--norun, store_const 1,  *)
(* default 0) is self.norun; epd is the display load_display_driver finds. *)
(***************************************************************************)
\* 396-405: load_display_driver raises EPDNotFoundError, or ctrl + c
\* arrives: exit()
DriverNotFound ==
  /\ pc = "begin"
  /\ pc' = "exit"
  /\ UNCHANGED <<runVars, fetchVars, areaVars, parseVars>>

\* exit() forgotten after the log line: run() goes on
NoRunGoesOn ==
  /\ pc = "begin"
  /\ self.norun # 0
  /\ pc' = "select"
  /\ UNCHANGED <<runVars, fetchVars, areaVars, parseVars>>

\* 407-409
NoRun ==
  /\ pc = "begin"
  /\ self.norun # 0
  /\ pc' = "exit"
  /\ UNCHANGED <<runVars, fetchVars, areaVars, parseVars>>

\* 407, 411: the main functionality starts
Begin ==
  /\ pc = "begin"
  /\ self.norun = 0
  /\ pc' = "select"
  /\ UNCHANGED <<runVars, fetchVars, areaVars, parseVars>>

(***************************************************************************)
(* random.choices(provider_types, k=1, weights=...)[0]  (run, 421-427).    *)
(* CPython: cum_weights = accumulate(weights); total = cum_weights[-1];    *)
(* ValueError unless total > 0; the answer is                              *)
(* population[bisect_right(cum_weights, random() * total, 0, n - 1)].      *)
(* random() * total lies in [0, total); the weights are integers           *)
(* (config.getint), so bisect compares the same way for x and floor(x),    *)
(* and r below ranges over 0 .. total-1.                                   *)
(***************************************************************************)
RECURSIVE accumulate(_)
accumulate(w) ==
  IF Len(w) = 0 THEN <<>>
  ELSE LET front == accumulate(SubSeq(w, 1, Len(w) - 1))
       IN  Append(front, (IF Len(front) = 0 THEN 0 ELSE front[Len(front)])
                          + w[Len(w)])

\* bisect_left in place of bisect_right: an entry equal to x is not passed
RECURSIVE bisect_left(_, _, _, _)
bisect_left(a, x, lo, hi) ==
  IF lo < hi
  THEN LET mid == (lo + hi) \div 2
       IN  IF a[mid + 1] < x
           THEN bisect_left(a, x, mid + 1, hi)
           ELSE bisect_left(a, x, lo, mid)
  ELSE lo

\* bisect_right(a, x, lo, hi) with 0-based lo, hi as in CPython
RECURSIVE bisect_right(_, _, _, _)
bisect_right(a, x, lo, hi) ==
  IF lo < hi
  THEN LET mid == (lo + hi) \div 2
       IN  IF x < a[mid + 1]
           THEN bisect_right(a, x, lo, mid)
           ELSE bisect_right(a, x, mid + 1, hi)
  ELSE lo

Weights(s) ==
  <<s.external_amount, s.historic_amount, s.stability_amount, s.dalle_amount>>

total_weight(w) == accumulate(w)[Len(w)]

choices(population, w, r) ==
  population[bisect_right(accumulate(w), r, 0, Len(population) - 1) + 1]

SelectProvider ==
  /\ pc = "select"
  /\ total_weight(Weights(self)) > 0
  /\ \E r \in 0 .. total_weight(Weights(self)) - 1 :
       provider_type' = choices(provider_types, Weights(self), r)
  /\ pc' = "acquire"
  /\ UNCHANGED <<epd, self, image_base, width_diff, height_diff, image_crop,
                 artist_text, title_text, artist_box, title_box, draw_box,
                 draw, epd_calls, fetchVars, areaVars, parseVars>>

\* random.choices raises ValueError("Total of weights must be greater than
\* zero"); run() catches EPDNotFoundError, IOError and KeyboardInterrupt
\* only, so the exception leaves run().
SelectRaises ==
  /\ pc = "select"
  /\ total_weight(Weights(self)) <= 0
  /\ pc' = "raised"
  /\ UNCHANGED <<runVars, fetchVars, areaVars, parseVars>>

(***************************************************************************)
(* The image (run, 431-559).  What a file or a service holds is an input:  *)
(* an image of SourceImages, a caption of Texts.                           *)
(***************************************************************************)
\* "" and "a"
Texts == {<<>>, <<97>>}

SourceSides == {2 * n : n \in 1 .. MaxSource}

SourceImages ==
  {[width |-> w, height |-> h, ox |-> 0, oy |-> 0] :
     w \in SourceSides, h \in SourceSides}

\* the sizes of DalleConst.SIZES are squares (provider.py 136-141, 156-158)
DalleImages ==
  {[width |-> n, height |-> n, ox |-> 0, oy |-> 0] : n \in SourceSides}

Abs(x) == IF x >= 0 THEN x ELSE 0 - x

\* thumbnail with the early return dropped: the image is always resized
thumbnail_always(im, size) ==
  {[im EXCEPT !.width = size.width, !.height = size.height]}

\* PIL's Image.thumbnail(size), in place: the images it may leave.  Nothing
\* changes when the image fits; otherwise the side that limits takes the
\* canvas's and the other follows the aspect ratio, round_aspect choosing
\* between floor and ceil the one whose ratio is nearer, at least 1.  The
\* keys abs(aspect - n / y) and abs(aspect - x / n) are compared here as
\* fractions; when they are equal the rounding of the floating-point keys
\* decides in PIL, so both candidates are possible.
thumbnail(im, size) ==
  LET x == size.width
      y == size.height
      w == im.width
      h == im.height
  IN  IF x >= w /\ y >= h THEN {im}
      ELSE IF x * h >= y * w
      THEN LET floor == (y * w) \div h
               ceil == IF (y * w) % h = 0 THEN floor ELSE floor + 1
               key_floor == Abs(w * y - floor * h)
               key_ceil == Abs(w * y - ceil * h)
               ns == IF key_floor < key_ceil THEN {floor}
                     ELSE IF key_ceil < key_floor THEN {ceil}
                     ELSE {floor, ceil}
           IN  {[im EXCEPT !.width = Max2(n, 1), !.height = y] : n \in ns}
      ELSE LET floor == (x * h) \div w
               ceil == IF (x * h) % w = 0 THEN floor ELSE floor + 1
               key_floor == Abs(w * floor - x * h) * ceil
               key_ceil == Abs(w * ceil - x * h) * floor
               ns == IF floor = 0 \/ key_floor < key_ceil THEN {floor}
                     ELSE IF key_ceil < key_floor THEN {ceil}
                     ELSE {floor, ceil}
           IN  {[im EXCEPT !.width = x, !.height = Max2(n, 1)] : n \in ns}

\* numpy.floor in place of numpy.ceil
floor_multiple(number, multiple_) == multiple_ * (number \div multiple_)

\* int(multiple * numpy.ceil(number / multiple)) (300-302), for the positive
\* integers below 2^31 a state holds: the quotient of two such integers is
\* a whole number as a double only when the division is exact
ceiling_multiple(number, multiple_) ==
  multiple_ * (IF number % multiple_ = 0 THEN number \div multiple_
               ELSE number \div multiple_ + 1)

\* 436-439, 466-469: the image directory does not exist: exit()
DirectoryMissing ==
  /\ pc = "acquire"
  /\ provider_type \in {EXTERNAL, HISTORIC}
  /\ pc' = "exit"
  /\ UNCHANGED <<runVars, fetchVars, areaVars, parseVars>>

\* 442-457: a random file of the directory is opened; its name gives the
\* title, and with parse_text the artist
OpenExternal ==
  /\ pc = "acquire"
  /\ provider_type = EXTERNAL
  /\ \E im \in SourceImages : image_base' = im
  /\ \E t \in Texts : title_text' = t
  /\ \E a \in Texts : artist_text' = a
  /\ pc' = "resize"
  /\ UNCHANGED <<epd, self, provider_type, width_diff, height_diff,
                 image_crop, artist_box, title_box, draw_box, draw,
                 epd_calls, fetchVars, areaVars, parseVars>>

\* 459-462
Thumbnail ==
  /\ pc = "resize"
  /\ image_base' \in thumbnail(image_base, epd)
  /\ pc' = "crop"
  /\ UNCHANGED <<epd, self, provider_type, width_diff, height_diff,
                 image_crop, artist_text, title_text, artist_box, title_box,
                 draw_box, draw, epd_calls, fetchVars, areaVars, parseVars>>

\* 471-485: a saved image is opened; its name or metadata give the captions
OpenHistoric ==
  /\ pc = "acquire"
  /\ provider_type = HISTORIC
  /\ \E im \in SourceImages : image_base' = im
  /\ \E t \in Texts : title_text' = t
  /\ \E a \in Texts : artist_text' = a
  /\ pc' = "crop"
  /\ UNCHANGED <<epd, self, provider_type, width_diff, height_diff,
                 image_crop, artist_box, title_box, draw_box, draw,
                 epd_calls, fetchVars, areaVars, parseVars>>

\* 444, 474; provider.py 100, 147: Image.open (or requests.get) raises an
\* OSError (PIL.UnidentifiedImageError, requests' RequestException), which
\* is IOError: caught at 625, logged, and run() returns
OpenFails ==
  /\ \/ pc = "acquire" /\ provider_type \in {EXTERNAL, HISTORIC}
     \/ pc = "get"
  /\ pc' = "caught"
  /\ UNCHANGED <<runVars, fetchVars, areaVars, parseVars>>

\* 488-517: the prompt is built from random lines of the artists, subjects
\* or prompts file; fetch_height and fetch_width are the display's
BuildPrompt ==
  /\ pc = "acquire"
  /\ provider_type \in {STABLE, DALLE}
  /\ \E t \in Texts : title_text' = t
  /\ \E a \in Texts : artist_text' = a
  /\ fetch_height' = epd.height
  /\ fetch_width' = epd.width
  /\ pc' = "fetch"
  /\ UNCHANGED <<epd, self, provider_type, image_base, width_diff,
                 height_diff, image_crop, artist_box, title_box, draw_box,
                 draw, epd_calls, multiple, saved, areaVars, parseVars>>

\* 509-511: prompt_mode is not a mode: exit()
InvalidPromptMode ==
  /\ pc = "acquire"
  /\ provider_type \in {STABLE, DALLE}
  /\ pc' = "exit"
  /\ UNCHANGED <<runVars, fetchVars, areaVars, parseVars>>

\* 523-526, 536-539; provider.py 58-63, 116-121: no key is given or kept
\* in the keyring: exit()
KeyMissing ==
  /\ pc = "fetch"
  /\ pc' = "exit"
  /\ UNCHANGED <<runVars, fetchVars, areaVars, parseVars>>

\* 529-530
CeilingFetch ==
  /\ pc = "fetch"
  /\ provider_type = STABLE
  /\ fetch_height' = ceiling_multiple(fetch_height, multiple)
  /\ fetch_width' = ceiling_multiple(fetch_width, multiple)
  /\ pc' = "get"
  /\ UNCHANGED <<runVars, multiple, saved, areaVars, parseVars>>

\* 533, 542: Dalle is asked for the display's size
DalleFetch ==
  /\ pc = "fetch"
  /\ provider_type = DALLE
  /\ pc' = "get"
  /\ UNCHANGED <<runVars, fetchVars, areaVars, parseVars>>

\* 531; provider.py 79-101: the service generates an image of the height
\* and width asked for
StabilityImage ==
  /\ pc = "get"
  /\ provider_type = STABLE
  /\ image_base' = [width |-> fetch_width, height |-> fetch_height,
                    ox |-> 0, oy |-> 0]
  /\ pc' = "save"
  /\ UNCHANGED <<epd, self, provider_type, width_diff, height_diff,
                 image_crop, artist_text, title_text, artist_box, title_box,
                 draw_box, draw, epd_calls, fetchVars, areaVars, parseVars>>

\* provider.py 94-98: an artifact's finish_reason is FILTER: return None
StabilityFiltered ==
  /\ pc = "get"
  /\ provider_type = STABLE
  /\ image_base' = None
  /\ pc' = "save"
  /\ UNCHANGED <<epd, self, provider_type, width_diff, height_diff,
                 image_crop, artist_text, title_text, artist_box, title_box,
                 draw_box, draw, epd_calls, fetchVars, areaVars, parseVars>>

\* provider.py 99-101: no artifact is an image: img is unbound at
\* "return img", UnboundLocalError, which run() does not catch
StabilityNoArtifact ==
  /\ pc = "get"
  /\ provider_type = STABLE
  /\ pc' = "raised"
  /\ UNCHANGED <<runVars, fetchVars, areaVars, parseVars>>

\* 542-546; provider.py 133-148, 151-178: the image of Dalle, or with
\* infill the image of its edit, has one of the service's sizes
DalleImage ==
  /\ pc = "get"
  /\ provider_type = DALLE
  /\ \E im \in DalleImages : image_base' = im
  /\ pc' = "save"
  /\ UNCHANGED <<epd, self, provider_type, width_diff, height_diff,
                 image_crop, artist_text, title_text, artist_box, title_box,
                 draw_box, draw, epd_calls, fetchVars, areaVars, parseVars>>

\* 553-559
SaveImage ==
  /\ pc = "save"
  /\ self.save_image
  /\ image_base # None
  /\ saved' = TRUE
  /\ pc' = "crop"
  /\ UNCHANGED <<runVars, multiple, fetch_height, fetch_width, areaVars,
                 parseVars>>

\* 559: image_base is None: None.save is an AttributeError, not caught
SaveRaises ==
  /\ pc = "save"
  /\ self.save_image
  /\ image_base = None
  /\ pc' = "raised"
  /\ UNCHANGED <<runVars, fetchVars, areaVars, parseVars>>

\* 553: save_image is off
NoSave ==
  /\ pc = "save"
  /\ ~self.save_image
  /\ pc' = "crop"
  /\ UNCHANGED <<runVars, fetchVars, areaVars, parseVars>>

\* 564: image_base is None: None.width is an AttributeError, not caught
CropRaises ==
  /\ pc = "crop"
  /\ image_base = None
  /\ pc' = "raised"
  /\ UNCHANGED <<runVars, fetchVars, areaVars, parseVars>>

\* 628-631: ctrl + c anywhere in the try block: epd.close() and exit()
InTry ==
  {"select", "acquire", "resize", "fetch", "get", "save", "crop", "icon",
   "text", "union", "pad", "pin", "rect", "display"}

KeyboardInterrupt ==
  /\ pc \in InTry
  /\ epd_calls' = Append(epd_calls, "close")
  /\ pc' = "exit"
  /\ UNCHANGED <<epd, self, provider_type, image_base, width_diff,
                 height_diff, image_crop, artist_text, title_text,
                 artist_box, title_box, draw_box, draw, fetchVars, areaVars,
                 parseVars>>

(***************************************************************************)
(* The centre crop (run, 561-574; the same code is screentest.py 63-74).   *)
(***************************************************************************)
\* Python 3 round() of the half-pixel value v2 / 2: to the nearest integer,
\* a tie to the even one.  PIL's Image.crop uses it on each coordinate of
\* the box: x0, y0, x1, y1 = map(int, map(round, box)).
round(v2) ==
  LET q == v2 \div 2
  IN  IF v2 % 2 = 0 THEN q
      ELSE IF q % 2 = 0 THEN q ELSE q + 1

\* image_base.crop(box): the region x0..x1, y0..y1 of the image, padded
\* where it lies outside.  The result is (x1 - x0) by (y1 - y0) and the
\* source's top-left pixel moves to (-x0, -y0).
crop(im, box) ==
  LET x0 == round(box[1])
      y0 == round(box[2])
      x1 == round(box[3])
      y1 == round(box[4])
  IN  [width |-> x1 - x0, height |-> y1 - y0,
       ox |-> im.ox - x0, oy |-> im.oy - y0]

\* epd.width - image_base.width / 2: the parentheses forgotten
WidthDiffNoParens(canvas, im) == Px(canvas.width) - im.width

WidthDiff(canvas, im) == canvas.width - im.width

HeightDiff(canvas, im) == canvas.height - im.height

\* (left_pixel, top_pixel, right_pixel, bottom_pixel)
ImageCrop(canvas, im) ==
  LET wd == WidthDiff(canvas, im)
      hd == HeightDiff(canvas, im)
  IN  <<0 - wd, 0 - hd, Px(im.width) + wd, Px(im.height) + hd>>

CenterCrop ==
  /\ pc = "crop"
  /\ image_base # None
  /\ width_diff' = WidthDiff(epd, image_base)
  /\ height_diff' = HeightDiff(epd, image_base)
  /\ image_crop' = ImageCrop(epd, image_base)
  /\ image_base' = crop(image_base, ImageCrop(epd, image_base))
  /\ draw' = <<>>
  /\ pc' = "icon"
  /\ UNCHANGED <<epd, self, provider_type, artist_text, title_text,
                 artist_box, title_box, draw_box, epd_calls,
                 fetchVars, areaVars, parseVars>>

(***************************************************************************)
(* add_status_icon (315-347).  The surface is the sequence of primitives   *)
(* drawn on it.  status_box is in pixels; the triangle's bounding circle   *)
(* (icon_padding + icon_size / 2, ..., icon_size / 2) is in half-pixels.   *)
(***************************************************************************)
FillDark(opacity) == <<0, 0, 0, opacity>>

FillLight(opacity) == <<255, 255, 255, opacity>>

\* an unrecognized shape draws nothing
SquareIconNothing(status_box, icon_width, icon_opacity) == <<>>

SquareIcon(status_box, icon_width, icon_opacity) ==
  <<[op |-> "rectangle", xy |-> status_box, width |-> icon_width,
     fill |-> FillDark(icon_opacity), outline |-> FillLight(icon_opacity)]>>

add_status_icon(d, display_shape, icon_padding, icon_size, icon_width, icon_opacity) ==
  LET status_corner == icon_padding + icon_size
      status_box == <<icon_padding, icon_padding, status_corner, status_corner>>
  IN  IF display_shape = CROSS
      THEN d \o <<[op |-> "rectangle", xy |-> status_box, width |-> 0,
                   fill |-> FillDark(icon_opacity), outline |-> None],
                  [op |-> "line", xy |-> status_box, width |-> icon_width,
                   fill |-> FillLight(icon_opacity), outline |-> None],
                  [op |-> "line",
                   xy |-> <<status_corner, icon_padding, icon_padding,
                            status_corner>>,
                   width |-> icon_width,
                   fill |-> FillLight(icon_opacity), outline |-> None]>>
      ELSE IF display_shape = TRIANGLE
      THEN d \o <<[op |-> "regular_polygon",
                   xy |-> <<Px(icon_padding) + icon_size,
                            Px(icon_padding) + icon_size, icon_size>>,
                   n_sides |-> 3,
                   fill |-> FillDark(icon_opacity),
                   outline |-> FillLight(icon_opacity)]>>
      ELSE IF display_shape = CIRCLE
      THEN d \o <<[op |-> "ellipse", xy |-> status_box, width |-> icon_width,
                   fill |-> FillDark(icon_opacity),
                   outline |-> FillLight(icon_opacity)]>>
      ELSE d \o SquareIcon(status_box, icon_width, icon_opacity)

\* self.icon_shape is None or an int (--displayshape, type=int): the model
\* holds None as <<>> and the int n as <<n>>.
StatusIcon ==
  /\ pc = "icon"
  /\ self.icon_shape # None
  /\ draw' = add_status_icon(draw, self.icon_shape[1], self.icon_padding,
                             self.icon_size, self.icon_width,
                             self.icon_opacity)
  /\ pc' = "text"
  /\ UNCHANGED <<epd, self, provider_type, image_base, width_diff,
                 height_diff, image_crop, artist_text, title_text,
                 artist_box, title_box, draw_box, epd_calls,
                 fetchVars, areaVars, parseVars>>

NoStatusIcon ==
  /\ pc = "icon"
  /\ self.icon_shape = None
  /\ pc' = "text"
  /\ UNCHANGED <<runVars, fetchVars, areaVars, parseVars>>

(***************************************************************************)
(* Rectangle helpers (273-298).                                            *)
(***************************************************************************)
\* the for loop of max_area over area_list[i ..], from (a, b, c, d)
RECURSIVE max_area_loop(_, _, _)
max_area_loop(area_list_, i, acc) ==
  IF i > Len(area_list_) THEN acc
  ELSE LET t == area_list_[i]
       IN  max_area_loop(area_list_, i + 1,
                         <<Min2(acc[1], t[1]), Min2(acc[2], t[2]),
                           Max2(acc[3], t[3]), Max2(acc[4], t[4])>>)

\* a, b, c, d initialised to 0 instead of area_list[0]
max_area_from_zero(area_list_) ==
  max_area_loop(area_list_, 1, <<0, 0, 0, 0>>)

\* the return inside the loop: only area_list[0] is looked at
max_area_first_only(area_list_) == area_list_[1]

max_area(area_list_) == max_area_loop(area_list_, 1, area_list_[1])

\* the third element is set in place of the fourth
set_tuple_third(tup_, bottom) == <<tup_[1], tup_[2], bottom, tup_[4]>>

set_tuple_bottom(tup_, bottom) == <<tup_[1], tup_[2], tup_[3], bottom>>

set_tuple_sides(tup_, left, right) == <<left, tup_[2], right, tup_[4]>>

(***************************************************************************)
(* The captions (run, 581-616).                                            *)
(***************************************************************************)
\* draw.textbbox(xy, text, font=..., anchor="mb"): the box of the rendered
\* text, its bottom middle at xy.  The font decides the size: tw by th
\* pixels here.
textbbox(xy, tw, th) == <<xy[1] - tw, xy[2] - Px(th), xy[1] + tw, xy[2]>>

\* (epd.width / 2, epd.height - loc)
TextAnchor(canvas, loc) == <<canvas.width, Px(canvas.height - loc)>>

\* artist_box = (0, epd.height, 0, epd.height); title_box = artist_box
EmptyBox(canvas) == <<0, Px(canvas.height), 0, Px(canvas.height)>>

\* numpy.add(draw_box, (padding, padding, padding, padding)): the box is
\* moved, not grown
AddPaddingShift(box, padding) ==
  <<box[1] + Px(padding), box[2] + Px(padding),
    box[3] + Px(padding), box[4] + Px(padding)>>

\* tuple(numpy.add(draw_box, (-padding, -padding, padding, padding)))
AddPadding(box, padding) ==
  <<box[1] - Px(padding), box[2] - Px(padding),
    box[3] + Px(padding), box[4] + Px(padding)>>

TextSizes == (1 .. MaxTextW) \X (1 .. MaxTextH)

\* exit() forgotten after the log line: the captions are skipped and the
\* image is displayed
FontMissingSkipsCaptions ==
  /\ pc = "text"
  /\ self.add_text
  /\ ~self.font_exists
  /\ pc' = "display"
  /\ UNCHANGED <<runVars, fetchVars, areaVars, parseVars>>

\* 585-588: the font file does not exist: exit()
FontMissing ==
  /\ pc = "text"
  /\ self.add_text
  /\ ~self.font_exists
  /\ pc' = "exit"
  /\ UNCHANGED <<runVars, fetchVars, areaVars, parseVars>>

\* 593-600
TextBoxes ==
  /\ pc = "text"
  /\ self.add_text
  /\ self.font_exists
  /\ \E a \in TextSizes :
       artist_box' = IF artist_text # <<>>
                     THEN textbbox(TextAnchor(epd, self.artist_loc), a[1], a[2])
                     ELSE EmptyBox(epd)
  /\ \E t \in TextSizes :
       title_box' = IF title_text # <<>>
                    THEN textbbox(TextAnchor(epd, self.title_loc), t[1], t[2])
                    ELSE EmptyBox(epd)
  /\ pc' = "union"
  /\ UNCHANGED <<epd, self, provider_type, image_base, width_diff,
                 height_diff, image_crop, artist_text, title_text, draw_box,
                 draw, epd_calls, fetchVars, areaVars, parseVars>>

\* 602
UnionBoxes ==
  /\ pc = "union"
  /\ draw_box' = max_area(<<artist_box, title_box>>)
  /\ pc' = "pad"
  /\ UNCHANGED <<epd, self, provider_type, image_base, width_diff,
                 height_diff, image_crop, artist_text, title_text,
                 artist_box, title_box, draw, epd_calls,
                 fetchVars, areaVars, parseVars>>

\* 603
PadBox ==
  /\ pc = "pad"
  /\ draw_box' = AddPadding(draw_box, self.padding)
  /\ pc' = "pin"
  /\ UNCHANGED <<epd, self, provider_type, image_base, width_diff,
                 height_diff, image_crop, artist_text, title_text,
                 artist_box, title_box, draw, epd_calls,
                 fetchVars, areaVars, parseVars>>

\* "elif self.box_to_edge": with both flags only the bottom is set
PinnedBoxElif(box, s, wd, image_crop_) ==
  IF s.box_to_floor THEN set_tuple_bottom(box, image_crop_[4])
  ELSE IF s.box_to_edge THEN set_tuple_sides(box, wd, image_crop_[3])
  ELSE box

\* 605-610: bottom_pixel is image_crop[4], right_pixel is image_crop[3]
PinnedBox(box, s, wd, image_crop_) ==
  LET floored == IF s.box_to_floor
                 THEN set_tuple_bottom(box, image_crop_[4]) ELSE box
  IN  IF s.box_to_edge
      THEN set_tuple_sides(floored, wd, image_crop_[3]) ELSE floored

PinBox ==
  /\ pc = "pin"
  /\ draw_box' = PinnedBox(draw_box, self, width_diff, image_crop)
  /\ pc' = "rect"
  /\ UNCHANGED <<epd, self, provider_type, image_base, width_diff,
                 height_diff, image_crop, artist_text, title_text,
                 artist_box, title_box, draw, epd_calls,
                 fetchVars, areaVars, parseVars>>

\* 612-616
DrawCaptions ==
  /\ pc = "rect"
  /\ draw' = draw \o
       <<[op |-> "rectangle", xy |-> draw_box, width |-> 1,
          fill |-> FillLight(self.opacity), outline |-> None],
         [op |-> "text", xy |-> TextAnchor(epd, self.artist_loc),
          text |-> artist_text],
         [op |-> "text", xy |-> TextAnchor(epd, self.title_loc),
          text |-> title_text]>>
  /\ pc' = "display"
  /\ UNCHANGED <<epd, self, provider_type, image_base, width_diff,
                 height_diff, image_crop, artist_text, title_text,
                 artist_box, title_box, draw_box, epd_calls,
                 fetchVars, areaVars, parseVars>>

\* 582: add_text is off
NoCaptions ==
  /\ pc = "text"
  /\ ~self.add_text
  /\ pc' = "display"
  /\ UNCHANGED <<runVars, fetchVars, areaVars, parseVars>>

\* epd.display before epd.prepare
display_before_prepare(calls) == calls \o <<"display", "prepare", "close">>

\* display_image_on_epd (304-313), called at 618
display_image_on_epd(calls) == calls \o <<"prepare", "display", "close">>

DisplayImage ==
  /\ pc = "display"
  /\ epd_calls' = display_image_on_epd(epd_calls)
  /\ pc' = "done"
  /\ UNCHANGED <<epd, self, provider_type, image_base, width_diff,
                 height_diff, image_crop, artist_text, title_text,
                 artist_box, title_box, draw_box, draw,
                 fetchVars, areaVars, parseVars>>

(***************************************************************************)
(* parse_subject (350-361).  A string is the sequence of its character     *)
(* codes.                                                                  *)
(***************************************************************************)
Ord(c) ==
  CASE c = "(" -> 40 [] c = ")" -> 41 [] c = "|" -> 124 [] c = "\\" -> 92
    [] c = "0" -> 48 [] c = "5" -> 53 [] c = "<" -> 60 [] c = ">" -> 62
    [] c = "a" -> 97 [] c = "b" -> 98 [] c = "c" -> 99 [] c = "g" -> 103
    [] c = "x" -> 120 [] c = "y" -> 121

Str(cs) == [i \in DOMAIN cs |-> Ord(cs[i])]

NEWLINE == 10

\* the first position >= i of s that holds c, or 0
RECURSIVE Find(_, _, _)
Find(s, c, i) ==
  IF i > Len(s) THEN 0
  ELSE IF s[i] = c THEN i ELSE Find(s, c, i + 1)

\* re.search(r"\(.*?\)", s, pos).span(), 1-based and inclusive; <<0, 0>>
\* when there is no match.  A match starts at a "(" and ends at the first
\* ")" after it; "." does not match a newline, so a newline before that ")"
\* makes the attempt at this "(" fail and the search goes on at the next.
RECURSIVE Search(_, _)
Search(s, pos) ==
  LET i == Find(s, Ord("("), pos)
      j == IF i = 0 THEN 0 ELSE Find(s, Ord(")"), i + 1)
      n == IF j = 0 THEN 0 ELSE Find(SubSeq(s, i + 1, j - 1), NEWLINE, 1)
  IN  IF i = 0 \/ j = 0 THEN <<0, 0>>
      ELSE IF n = 0 THEN <<i, j>>
      ELSE Search(s, i + 1)

\* re.findall(r"\(.*?\)", s): the matches from pos on, left to right, none
\* overlapping
RECURSIVE findall(_, _)
findall(s, pos) ==
  LET m == Search(s, pos)
  IN  IF m[1] = 0 THEN <<>>
      ELSE <<SubSeq(s, m[1], m[2])>> \o findall(s, m[2] + 1)

IsParen(c) == c = Ord("(") \/ c = Ord(")")

NotParen(c) == ~IsParen(c)

\* bracket.replace('(', '').replace(')', '')
StripParens(bracket) == SelectSeq(bracket, NotParen)

\* s.split('|')
RECURSIVE split(_)
split(s) ==
  LET k == Find(s, Ord("|"), 1)
  IN  IF k = 0 THEN <<s>>
      ELSE <<SubSeq(s, 1, k - 1)>> \o split(SubSeq(s, k + 1, Len(s)))

IsOctDigit(c) == 48 <= c /\ c <= 55

IsDigit(c) == 48 <= c /\ c <= 57

IsAsciiLetter(c) == (65 <= c /\ c <= 90) \/ (97 <= c /\ c <= 122)

\* str.isidentifier() on ASCII text
IsIdentifier(name) ==
  /\ Len(name) > 0
  /\ IsAsciiLetter(name[1]) \/ name[1] = 95
  /\ \A k \in DOMAIN name :
       IsAsciiLetter(name[k]) \/ IsDigit(name[k]) \/ name[k] = 95

\* int(name) = 0 for a name of ASCII digits
IsZeroNumber(name) ==
  /\ Len(name) > 0
  /\ \A k \in DOMAIN name : name[k] = 48

\* sre_parse.ESCAPES: \a \b \f \n \r \t \v \\
IsEscape(c) == c \in {97, 98, 102, 110, 114, 116, 118, 92}

EscapeValue(c) ==
  CASE c = 97 -> 7 [] c = 98 -> 8 [] c = 102 -> 12 [] c = 110 -> 10
    [] c = 114 -> 13 [] c = 116 -> 9 [] c = 118 -> 11 [] c = 92 -> 92

Bad == [ok |-> FALSE, text |-> <<>>]

\* re.sub takes its replacement as a template (sre_parse.parse_template)
\* whenever it holds a backslash: \\ is one backslash, \a \b ... are control
\* characters, \0, \0o, \0oo and \ooo are octal character codes, \g<0> is
\* the whole match; a reference to a group the pattern does not have
\* (r"\(.*?\)" has none), an unknown ASCII letter after the backslash or a
\* backslash at the end raise re.error.  The expansion of t[i ..] is added
\* to acc; whole is the matched text.
RECURSIVE expand_template(_, _, _, _)
expand_template(t, i, acc, whole) ==
  IF i > Len(t) THEN [ok |-> TRUE, text |-> acc]
  ELSE IF t[i] # Ord("\\")
  THEN expand_template(t, i + 1, Append(acc, t[i]), whole)
  ELSE IF i = Len(t) THEN Bad
  ELSE
    LET c == t[i + 1]
        d1 == IF i + 2 <= Len(t) THEN t[i + 2] ELSE 0
        d2 == IF i + 3 <= Len(t) THEN t[i + 3] ELSE 0
        close == Find(t, Ord(">"), i + 3)
        name == SubSeq(t, i + 3, close - 1)
        oct3 == (c - 48) * 64 + (d1 - 48) * 8 + (d2 - 48)
    IN  IF c = Ord("g")
        THEN IF d1 # Ord("<") \/ close = 0 THEN Bad
             ELSE IF IsZeroNumber(name)
             THEN expand_template(t, close + 1, acc \o whole, whole)
             ELSE Bad
        ELSE IF c = Ord("0")
        THEN IF IsOctDigit(d1) /\ IsOctDigit(d2)
             THEN expand_template(t, i + 4,
                                  Append(acc, ((d1 - 48) * 8 + (d2 - 48)) % 256),
                                  whole)
             ELSE IF IsOctDigit(d1)
             THEN expand_template(t, i + 3, Append(acc, d1 - 48), whole)
             ELSE expand_template(t, i + 2, Append(acc, 0), whole)
        ELSE IF IsDigit(c)
        THEN IF IsOctDigit(c) /\ IsOctDigit(d1) /\ IsOctDigit(d2) /\ oct3 <= 255
             THEN expand_template(t, i + 4, Append(acc, oct3), whole)
             ELSE Bad
        ELSE IF IsEscape(c)
        THEN expand_template(t, i + 2, Append(acc, EscapeValue(c)), whole)
        ELSE IF IsAsciiLetter(c) THEN Bad
        ELSE expand_template(t, i + 2, acc \o <<t[i], c>>, whole)

\* re.sub(r"\(.*?\)", option, s, 1): the template is compiled first (an
\* invalid one raises, ok = FALSE), then the first match, if there is one,
\* is replaced by its expansion.
sub(option, s) ==
  LET m == Search(s, 1)
      whole == IF m[1] = 0 THEN <<>> ELSE SubSeq(s, m[1], m[2])
      e == expand_template(option, 1, <<>>, whole)
  IN  IF ~e.ok THEN Bad
      ELSE IF m[1] = 0 THEN [ok |-> TRUE, text |-> s]
      ELSE [ok |-> TRUE,
            text |-> SubSeq(s, 1, m[1] - 1) \o e.text
                       \o SubSeq(s, m[2] + 1, Len(s))]

\* 353
ParseFindall ==
  /\ pc = "parse"
  /\ brackets' = findall(subject, 1)
  /\ pc' = "loop"
  /\ UNCHANGED <<runVars, fetchVars, areaVars, subject, raised, arg, options>>

\* 354-360: one turn of the loop; random.choice draws the option
ParseSubstitute ==
  /\ pc = "loop"
  /\ brackets # <<>>
  /\ LET alternatives == split(StripParens(Head(brackets)))
     IN  \E k \in DOMAIN alternatives :
           LET r == sub(alternatives[k], subject)
           IN  /\ options' = Append(options, alternatives[k])
               /\ IF r.ok
                  THEN /\ subject' = r.text
                       /\ brackets' = Tail(brackets)
                       /\ pc' = "loop"
                       /\ raised' = FALSE
                  ELSE /\ raised' = TRUE
                       /\ pc' = "raised"
                       /\ UNCHANGED <<subject, brackets>>
  /\ UNCHANGED <<runVars, fetchVars, areaVars, arg>>

\* 361
ParseReturn ==
  /\ pc = "loop"
  /\ brackets = <<>>
  /\ pc' = "returned"
  /\ UNCHANGED <<runVars, fetchVars, areaVars, parseVars>>

(***************************************************************************)
(* Initial states.  Pycasso.__init__ (74-138) sets the configuration       *)
(* fields to the defaults of ConfigConst and load_config (183-271) then    *)
(* overwrites them from the configuration file; BaseSelf is one such       *)
(* configuration and each specification varies the fields its steps read.  *)
(***************************************************************************)
BaseSelf ==
  [external_amount |-> 1, historic_amount |-> 1, stability_amount |-> 1,
   dalle_amount |-> 1,
   icon_shape |-> None, icon_padding |-> 5, icon_size |-> 10,
   icon_width |-> ICON_WIDTH, icon_opacity |-> ICON_OPACITY,
   add_text |-> TRUE, font_exists |-> TRUE,
   box_to_floor |-> FALSE, box_to_edge |-> FALSE,
   artist_loc |-> 1, title_loc |-> 2, padding |-> 1,
   opacity |-> 150, norun |-> 0, save_image |-> FALSE]

Size(w, h) == [width |-> w, height |-> h]

Image(w, h) == [width |-> w, height |-> h, ox |-> 0, oy |-> 0]

\* the state of run() at position p, nothing computed yet
RunAt(p, selfs, canvases, images, texts) ==
  /\ pc = p
  /\ self \in selfs
  /\ epd \in canvases
  /\ image_base \in images
  /\ artist_text \in texts
  /\ title_text \in texts
  /\ provider_type = EXTERNAL
  /\ width_diff = 0
  /\ height_diff = 0
  /\ image_crop = <<0, 0, 0, 0>>
  /\ artist_box = <<0, 0, 0, 0>>
  /\ title_box = <<0, 0, 0, 0>>
  /\ draw_box = <<0, 0, 0, 0>>
  /\ draw = <<>>
  /\ epd_calls = <<>>
  /\ multiple = 1
  /\ fetch_height = 0
  /\ fetch_width = 0
  /\ saved = FALSE

AreaIdle == area_list = <<>> /\ tup = <<0, 0, 0, 0>>

ParseIdle ==
  /\ subject = <<>>
  /\ brackets = <<>>
  /\ raised = FALSE
  /\ arg = <<>>
  /\ options = <<>>

(***************************************************************************)
(* SpecSelect: the provider selection of run() over every weight vector.   *)
(***************************************************************************)
WeightRange == (0 - MaxNegWeight) .. MaxWeight

SelectSelfs ==
  {[BaseSelf EXCEPT !.external_amount = e, !.historic_amount = h,
                    !.stability_amount = s, !.dalle_amount = d] :
     e \in WeightRange, h \in WeightRange, s \in WeightRange,
     d \in WeightRange}

InitSelect ==
  /\ RunAt("select", SelectSelfs, {Size(4, 4)}, {Image(1, 1)}, {<<>>})
  /\ AreaIdle
  /\ ParseIdle

NextSelect == SelectProvider \/ SelectRaises

SpecSelect == InitSelect /\ [][NextSelect]_vars

(***************************************************************************)
(* SpecCrop: the centre crop over canvases and images.                     *)
(***************************************************************************)
Canvases ==
  {Size(w, h) : w \in 1 .. MaxDim, h \in 1 .. MaxDim}
    \cup {Size(800, 480), Size(801, 480)}

Images ==
  {Image(w, h) : w \in 1 .. MaxDim + 1, h \in 1 .. MaxDim + 1}
    \cup {Image(400, 300), Image(800, 480)}

InitCrop ==
  /\ RunAt("crop", {BaseSelf}, Canvases, Images, {<<>>})
  /\ AreaIdle
  /\ ParseIdle

NextCrop == CenterCrop

SpecCrop == InitCrop /\ [][NextCrop]_vars

(***************************************************************************)
(* SpecIcon: the status icon over shapes, paddings and sizes.              *)
(***************************************************************************)
IconShapes == {None} \cup {<<n>> : n \in -1 .. 5}

IconSelfs ==
  {[BaseSelf EXCEPT !.icon_shape = sh, !.icon_padding = p, !.icon_size = z] :
     sh \in IconShapes, p \in 0 .. MaxIconPadding, z \in 0 .. MaxIconSize}

InitIcon ==
  /\ RunAt("icon", IconSelfs, {Size(4, 4)}, {Image(4, 4)}, {<<>>})
  /\ AreaIdle
  /\ ParseIdle

NextIcon == StatusIcon \/ NoStatusIcon

SpecIcon == InitIcon /\ [][NextIcon]_vars

(***************************************************************************)
(* SpecCompose: from the centre crop to the display, over the caption      *)
(* configuration.                                                          *)
(***************************************************************************)
ComposeSelfs ==
  {[BaseSelf EXCEPT !.add_text = t, !.font_exists = f, !.box_to_floor = bf,
                    !.box_to_edge = be, !.padding = p, !.artist_loc = al,
                    !.icon_shape = sh] :
     t \in BOOLEAN, f \in BOOLEAN, bf \in BOOLEAN, be \in BOOLEAN,
     p \in 0 .. MaxPadding, al \in 0 .. MaxLoc, sh \in {None, <<CROSS>>}}

ComposeCanvases == {Size(6, 4), Size(5, 5)}

ComposeImages == {Image(4, 4), Image(6, 2)}

InitCompose ==
  /\ RunAt("crop", ComposeSelfs, ComposeCanvases, ComposeImages, Texts)
  /\ AreaIdle
  /\ ParseIdle

NextCompose ==
  \/ CenterCrop
  \/ StatusIcon
  \/ NoStatusIcon
  \/ FontMissing
  \/ TextBoxes
  \/ UnionBoxes
  \/ PadBox
  \/ PinBox
  \/ DrawCaptions
  \/ NoCaptions
  \/ DisplayImage

SpecCompose == InitCompose /\ [][NextCompose]_vars

(***************************************************************************)
(* SpecRun: run() from its first line to its end, over the command line,   *)
(* the configuration, the display and what the providers deliver.          *)
(***************************************************************************)
\* provider_type before 422
Unbound == "unbound"

RunSelfs ==
  {[BaseSelf EXCEPT !.norun = n, !.save_image = sv, !.add_text = t] :
     n \in {0, 1}, sv \in BOOLEAN, t \in BOOLEAN}
    \cup {[BaseSelf EXCEPT !.font_exists = FALSE],
          [BaseSelf EXCEPT !.icon_shape = <<CROSS>>],
          [BaseSelf EXCEPT !.external_amount = 0, !.historic_amount = 0,
                           !.stability_amount = 0, !.dalle_amount = 0]}

Multiples == 1 .. MaxMultiple

InitRun ==
  /\ pc = "begin"
  /\ self \in RunSelfs
  /\ epd \in ComposeCanvases
  /\ multiple \in Multiples
  /\ provider_type = Unbound
  /\ image_base = None
  /\ artist_text = <<>>
  /\ title_text = <<>>
  /\ width_diff = 0
  /\ height_diff = 0
  /\ image_crop = <<0, 0, 0, 0>>
  /\ artist_box = <<0, 0, 0, 0>>
  /\ title_box = <<0, 0, 0, 0>>
  /\ draw_box = <<0, 0, 0, 0>>
  /\ draw = <<>>
  /\ epd_calls = <<>>
  /\ fetch_height = 0
  /\ fetch_width = 0
  /\ saved = FALSE
  /\ AreaIdle
  /\ ParseIdle

NextRun ==
  \/ DriverNotFound
  \/ NoRun
  \/ Begin
  \/ SelectProvider
  \/ SelectRaises
  \/ DirectoryMissing
  \/ OpenExternal
  \/ Thumbnail
  \/ OpenHistoric
  \/ OpenFails
  \/ BuildPrompt
  \/ InvalidPromptMode
  \/ KeyMissing
  \/ CeilingFetch
  \/ DalleFetch
  \/ StabilityImage
  \/ StabilityFiltered
  \/ StabilityNoArtifact
  \/ DalleImage
  \/ SaveImage
  \/ SaveRaises
  \/ NoSave
  \/ CropRaises
  \/ CenterCrop
  \/ StatusIcon
  \/ NoStatusIcon
  \/ FontMissing
  \/ TextBoxes
  \/ UnionBoxes
  \/ PadBox
  \/ PinBox
  \/ DrawCaptions
  \/ NoCaptions
  \/ DisplayImage
  \/ KeyboardInterrupt

SpecRun == InitRun /\ [][NextRun]_vars

(***************************************************************************)
(* SpecMaxArea: max_area on every list of 1 .. MaxRects rectangles with    *)
(* coordinates in 0 .. MaxCoord, ordered or not.                           *)
(***************************************************************************)
Rects == (0 .. MaxCoord) \X (0 .. MaxCoord) \X (0 .. MaxCoord) \X (0 .. MaxCoord)

RectLists == UNION {[1 .. n -> Rects] : n \in 1 .. MaxRects}

InitMaxArea ==
  /\ RunAt("max_area", {BaseSelf}, {Size(4, 4)}, {Image(1, 1)}, {<<>>})
  /\ area_list \in RectLists
  /\ tup = <<0, 0, 0, 0>>
  /\ ParseIdle

CallMaxArea ==
  /\ pc = "max_area"
  /\ tup' = max_area(area_list)
  /\ pc' = "returned"
  /\ UNCHANGED <<runVars, fetchVars, area_list, parseVars>>

NextMaxArea == CallMaxArea

SpecMaxArea == InitMaxArea /\ [][NextMaxArea]_vars

(***************************************************************************)
(* SpecTuple: set_tuple_bottom and set_tuple_sides, one after the other in *)
(* either order, on every rectangle and every left, right and bottom with  *)
(* coordinates in 0 .. MaxCoord.  draw_box is the rectangle passed and     *)
(* reassigned as run() does (607, 610); tup keeps the first argument;      *)
(* left, right and bottom are width_diff, image_crop[3] and image_crop[4]. *)
(***************************************************************************)
InitTuple ==
  /\ pc = "tuple"
  /\ self = BaseSelf
  /\ epd = Size(4, 4)
  /\ image_base = Image(1, 1)
  /\ provider_type = EXTERNAL
  /\ artist_text = <<>>
  /\ title_text = <<>>
  /\ tup \in Rects
  /\ draw_box = tup
  /\ width_diff \in 0 .. MaxCoord
  /\ height_diff = 0
  /\ \E right \in 0 .. MaxCoord, bottom \in 0 .. MaxCoord :
       image_crop = <<0, 0, right, bottom>>
  /\ artist_box = <<0, 0, 0, 0>>
  /\ title_box = <<0, 0, 0, 0>>
  /\ draw = <<>>
  /\ epd_calls = <<>>
  /\ multiple = 1
  /\ fetch_height = 0
  /\ fetch_width = 0
  /\ saved = FALSE
  /\ area_list = <<>>
  /\ ParseIdle

CallSetTupleBottom ==
  /\ pc \in {"tuple", "sides_set"}
  /\ draw_box' = set_tuple_bottom(draw_box, image_crop[4])
  /\ pc' = IF pc = "tuple" THEN "bottom_set" ELSE "sides_bottom_set"
  /\ UNCHANGED <<epd, self, provider_type, image_base, width_diff,
                 height_diff, image_crop, artist_text, title_text,
                 artist_box, title_box, draw, epd_calls, fetchVars, areaVars,
                 parseVars>>

CallSetTupleSides ==
  /\ pc \in {"tuple", "bottom_set"}
  /\ draw_box' = set_tuple_sides(draw_box, width_diff, image_crop[3])
  /\ pc' = IF pc = "tuple" THEN "sides_set" ELSE "bottom_sides_set"
  /\ UNCHANGED <<epd, self, provider_type, image_base, width_diff,
                 height_diff, image_crop, artist_text, title_text,
                 artist_box, title_box, draw, epd_calls, fetchVars, areaVars,
                 parseVars>>

NextTuple == CallSetTupleBottom \/ CallSetTupleSides

SpecTuple == InitTuple /\ [][NextTuple]_vars

(***************************************************************************)
(* SpecFetch: the size asked of Stability (run, 514-530) over displays and *)
(* multiples.                                                              *)
(***************************************************************************)
InitFetch ==
  /\ pc = "fetch"
  /\ self = BaseSelf
  /\ epd \in Canvases
  /\ multiple \in Multiples
  /\ provider_type = STABLE
  /\ image_base = None
  /\ artist_text = <<>>
  /\ title_text = <<>>
  /\ fetch_height = epd.height
  /\ fetch_width = epd.width
  /\ width_diff = 0
  /\ height_diff = 0
  /\ image_crop = <<0, 0, 0, 0>>
  /\ artist_box = <<0, 0, 0, 0>>
  /\ title_box = <<0, 0, 0, 0>>
  /\ draw_box = <<0, 0, 0, 0>>
  /\ draw = <<>>
  /\ epd_calls = <<>>
  /\ saved = FALSE
  /\ AreaIdle
  /\ ParseIdle

NextFetch == CeilingFetch

SpecFetch == InitFetch /\ [][NextFetch]_vars

(***************************************************************************)
(* SpecParse: parse_subject on every string of at most MaxLen characters   *)
(* of Alphabet, and on Examples.                                           *)
(***************************************************************************)
Alphabet == {Ord(c) : c \in {"(", ")", "|", "\\", "0", "5", "a", "x"}}

Strings == UNION {[1 .. n -> Alphabet] : n \in 0 .. MaxLen}

Examples ==
  {Str(<<"a", "(", "b", "|", "b", ")", "c">>),
   Str(<<"(", "x", "|", "y", ")">>),
   Str(<<"a", "(", "x", "|", "y", ")", "(", "b", ")">>),
   Str(<<"(", "\\", "0", "5", "0", ")">>),
   Str(<<"(", "\\", "g", "<", "0", ">", ")">>)}

InitParse ==
  /\ RunAt("parse", {BaseSelf}, {Size(4, 4)}, {Image(1, 1)}, {<<>>})
  /\ AreaIdle
  /\ subject \in Strings \cup Examples
  /\ arg = subject
  /\ brackets = <<>>
  /\ raised = FALSE
  /\ options = <<>>

NextParse == ParseFindall \/ ParseSubstitute \/ ParseReturn

SpecParse == InitParse /\ [][NextParse]_vars

(***************************************************************************)
(* Claims about the centre crop (SpecCrop).                                *)
(***************************************************************************)
\* C1: for every canvas (W, H) and source image (w, h) with w <= W and
\* h <= H the centre crop yields an image of exactly W by H, also when W - w
\* or H - h is odd.  (The claim goes on to place the source's top-left
\* corner at (width_diff, height_diff); the size is what the code misses.)
C1_CropYieldsCanvasSize ==
  (pc = "icon" /\ width_diff >= 0 /\ height_diff >= 0)
    => (image_base.width = epd.width /\ image_base.height = epd.height)

\* C8: when the source image is exactly the canvas size, width_diff and
\* height_diff are 0, the crop rectangle is (0, 0, W, H) and the crop returns
\* the image unchanged.
C8_CanvasSizedImageUnchanged ==
  [][(pc = "crop" /\ image_base.width = epd.width
                  /\ image_base.height = epd.height)
       => (/\ width_diff' = 0
           /\ height_diff' = 0
           /\ image_crop' = <<0, 0, Px(epd.width), Px(epd.height)>>
           /\ image_base' = image_base)]_vars

C8_Witness ==
  /\ pc = "icon"
  /\ image_base = Image(epd.width, epd.height)
  /\ image_crop = <<0, 0, Px(epd.width), Px(epd.height)>>
  /\ epd = Size(800, 480)

(***************************************************************************)
(* Claims about the provider selection (SpecSelect).                       *)
(***************************************************************************)
WeightOf(s, label) ==
  CASE label = EXTERNAL -> s.external_amount
    [] label = HISTORIC -> s.historic_amount
    [] label = STABLE -> s.stability_amount
    [] label = DALLE -> s.dalle_amount

Positive(s) ==
  {label \in {EXTERNAL, HISTORIC, STABLE, DALLE} : WeightOf(s, label) > 0}

\* C6: a provider whose weight is 0 is never selected, and when exactly one
\* weight is positive the selection returns that provider's label.
C6_ZeroWeightNeverSelected ==
  pc = "acquire"
    => /\ WeightOf(self, provider_type) # 0
       /\ Cardinality(Positive(self)) = 1 => provider_type \in Positive(self)

C6_Witness ==
  /\ pc = "acquire"
  /\ Weights(self) = <<0, 0, MaxWeight, 0>>
  /\ provider_type = STABLE

(***************************************************************************)
(* Claims about the status icon (SpecIcon).                                *)
(***************************************************************************)
\* C10: for every display_shape that is not cross, triangle or circle,
\* add_status_icon draws the square badge, a filled and outlined rectangle at
\* (padding, padding, padding + size, padding + size), on the surface it was
\* given, and nothing else.
C10_UnknownShapeDrawsSquare ==
  (pc = "text" /\ self.icon_shape # None
               /\ self.icon_shape[1] \notin {CROSS, TRIANGLE, CIRCLE})
    => draw = <<[op |-> "rectangle",
                 xy |-> <<self.icon_padding, self.icon_padding,
                          self.icon_padding + self.icon_size,
                          self.icon_padding + self.icon_size>>,
                 width |-> self.icon_width,
                 fill |-> <<0, 0, 0, self.icon_opacity>>,
                 outline |-> <<255, 255, 255, self.icon_opacity>>]>>

C10_Witness ==
  /\ pc = "text"
  /\ self.icon_shape = <<5>>
  /\ Len(draw) = 1
  /\ draw[1].op = "rectangle"
  /\ draw[1].xy = <<2, 2, 5, 5>>

(***************************************************************************)
(* Claims about the caption box (SpecCompose).                             *)
(***************************************************************************)
\* C2: with captions enabled, an empty title and a non-empty artist caption,
\* the caption background box computed in run() is the artist text box
\* expanded by the padding on all four sides.
C2_EmptyTitleBoxIsArtistBox ==
  (pc = "pin" /\ title_text = <<>> /\ artist_text # <<>>)
    => draw_box = <<artist_box[1] - Px(self.padding),
                    artist_box[2] - Px(self.padding),
                    artist_box[3] + Px(self.padding),
                    artist_box[4] + Px(self.padding)>>

\* C7: the padding step leaves the box as it is when the padding is 0 and,
\* for every box and padding p, makes it wider and higher by exactly 2p
\* while its centre stays where it was.
C7_PaddingGrowsBoxAroundCentre ==
  [][pc = "pad"
       => (/\ self.padding = 0 => draw_box' = draw_box
           /\ draw_box'[3] - draw_box'[1]
                = (draw_box[3] - draw_box[1]) + 2 * Px(self.padding)
           /\ draw_box'[4] - draw_box'[2]
                = (draw_box[4] - draw_box[2]) + 2 * Px(self.padding)
           /\ draw_box'[1] + draw_box'[3] = draw_box[1] + draw_box[3]
           /\ draw_box'[2] + draw_box'[4] = draw_box[2] + draw_box[4])]_vars

C7_Witness ==
  /\ pc = "pin"
  /\ self.padding = 2
  /\ artist_text # <<>>
  /\ title_text # <<>>
  /\ draw_box[3] - draw_box[1]
       = Max2(artist_box[3], title_box[3]) - Min2(artist_box[1], title_box[1])
           + 2 * Px(2)

(***************************************************************************)
(* Claims about max_area (SpecMaxArea).                                    *)
(***************************************************************************)
Least(S) == CHOOSE x \in S : \A y \in S : x <= y

Greatest(S) == CHOOSE x \in S : \A y \in S : x >= y

Coordinate(list, k) == {list[i][k] : i \in DOMAIN list}

Reordered(list) ==
  {[i \in DOMAIN list |-> list[f[i]]] : f \in Permutations(DOMAIN list)}

\* C3: max_area(L) is (least left, least top, greatest right, greatest
\* bottom) of L, whatever the order of L, and max_area([R]) = R.
C3_MaxAreaIsMinMinMaxMax ==
  pc = "returned"
    => /\ tup = <<Least(Coordinate(area_list, 1)),
                  Least(Coordinate(area_list, 2)),
                  Greatest(Coordinate(area_list, 3)),
                  Greatest(Coordinate(area_list, 4))>>
       /\ \A other \in Reordered(area_list) : max_area(other) = tup
       /\ Len(area_list) = 1 => tup = area_list[1]

C3_Witness ==
  /\ pc = "returned"
  /\ area_list = <<<<1, 0, 1, 0>>, <<0, 1, 0, 1>>>>
  /\ tup = <<0, 0, 1, 1>>

Within(x, lo, hi) == lo <= x /\ x <= hi

Contains(u, r) ==
  /\ Within(r[1], u[1], u[3])
  /\ Within(r[3], u[1], u[3])
  /\ Within(r[2], u[2], u[4])
  /\ Within(r[4], u[2], u[4])

Ordered(r) == r[1] <= r[3] /\ r[2] <= r[4]

\* C4 as stated: for every non-empty list of rectangles, ordered or not,
\* max_area(L) contains every rectangle of L, each of its four coordinates
\* within the bounds of the union.
C4_UnionContainsAnyRectangle ==
  pc = "returned"
    => \A i \in DOMAIN area_list : Contains(tup, area_list[i])

\* C4 as amended: for every non-empty list of rectangles that each have
\* left <= right and top <= bottom, max_area(L) contains every rectangle
\* of L.
C4_UnionContainsOrderedRectangles ==
  (pc = "returned" /\ \A i \in DOMAIN area_list : Ordered(area_list[i]))
    => \A i \in DOMAIN area_list : Contains(tup, area_list[i])

C4_Witness ==
  /\ pc = "returned"
  /\ area_list = <<<<0, 0, 0, 1>>, <<1, 0, 1, 0>>>>
  /\ tup = <<0, 0, 1, 1>>

(***************************************************************************)
(* Claims about parse_subject (SpecParse).                                 *)
(***************************************************************************)
\* s from pos on, the k-th and later groups replaced by opts[k], ... as they
\* are written
RECURSIVE Replaced(_, _, _, _)
Replaced(s, pos, opts, k) ==
  LET m == Search(s, pos)
  IN  IF m[1] = 0 \/ k > Len(opts) THEN SubSeq(s, pos, Len(s))
      ELSE SubSeq(s, pos, m[1] - 1) \o opts[k]
             \o Replaced(s, m[2] + 1, opts, k + 1)

\* C5: parse_subject makes one substitution for each group of the original
\* string, the i-th putting one of the i-th group's alternatives in the
\* place of that group; the text outside the groups stays as it is and
\* inserted text is not expanded again, so a string with no groups comes
\* back unchanged.
C5_EachGroupReplacedByItsAlternative ==
  pc = "returned"
    => /\ Len(options) = Len(findall(arg, 1))
       /\ subject = Replaced(arg, 1, options, 1)

\* literal text without "(", ")" and "|", and groups that are not nested
RECURSIVE WellFormed(_, _, _)
WellFormed(s, i, inside) ==
  IF i > Len(s) THEN ~inside
  ELSE IF s[i] = Ord("(") THEN ~inside /\ WellFormed(s, i + 1, TRUE)
  ELSE IF s[i] = Ord(")") THEN inside /\ WellFormed(s, i + 1, FALSE)
  ELSE IF s[i] = Ord("|") THEN inside /\ WellFormed(s, i + 1, inside)
  ELSE WellFormed(s, i + 1, inside)

NoUsableImage ==
  /\ provider_type \in {STABLE, DALLE}
  /\ pc \in {"save", "crop", "raised", "caught"}
  /\ image_base = None

Displayed == \E i \in DOMAIN epd_calls : epd_calls[i] = "display"

\* C11: when the selected provider returns no usable image, run() does not
\* composite and never calls epd.display, and the failure propagates to the
\* caller of run(): run() does not return normally.
C11_NoUsableImagePropagates ==
  NoUsableImage => (draw = <<>> /\ ~Displayed /\ pc # "caught")

\* C13: when --norun is set, run() ends before the main functionality: no
\* provider is selected or called, no image is loaded or saved, and
\* epd.prepare and epd.display are never called.
C13_NoRunEndsBeforeMain ==
  self.norun # 0
    => /\ pc \in {"begin", "exit"}
       /\ provider_type = Unbound
       /\ image_base = None
       /\ fetch_height = 0
       /\ fetch_width = 0
       /\ ~saved
       /\ epd_calls = <<>>

C13_Witness == self.norun # 0 /\ pc = "exit"

Fits(im, canvas) == im.width <= canvas.width /\ im.height <= canvas.height

\* C16 as claimed: for every provider type the source image is resized to fit within
\* the canvas before the centre crop: at the crop image.width <= canvas
\* width and image.height <= canvas height, so width_diff >= 0 and
\* height_diff >= 0; and an image already within the canvas is never
\* enlarged (the resize leaves it as it is).
C16_ImageFitsCanvasAtCrop ==
  /\ [](/\ pc = "crop" /\ image_base # None => Fits(image_base, epd)
        /\ width_diff >= 0
        /\ height_diff >= 0)
  /\ [][pc = "resize" /\ Fits(image_base, epd) => image_base' = image_base]_vars

\* C16 as amended: for the external provider the source image is resized to
\* fit within the canvas before the centre crop (image.width <= canvas
\* width, image.height <= canvas height, width_diff >= 0, height_diff >= 0),
\* and an image already within the canvas is never enlarged.
C16_ExternalImageFitsCanvas ==
  /\ [](provider_type = EXTERNAL
          => /\ pc = "crop" => Fits(image_base, epd)
             /\ width_diff >= 0
             /\ height_diff >= 0)
  /\ [][pc = "resize" /\ Fits(image_base, epd) => image_base' = image_base]_vars

\* an external image that the thumbnail has shrunk is at the crop
C16_Witness ==
  /\ provider_type = EXTERNAL
  /\ pc = "crop"
  /\ image_base \notin SourceImages

(***************************************************************************)
(* Claims about the captions and the display (SpecCompose).                *)
(***************************************************************************)
\* the caption background (white, self.opacity) or a caption text is on the
\* surface
IsCaptionBackground(d) ==
  d.op = "rectangle" /\ d.fill = FillLight(self.opacity) /\ d.outline = None

CaptionDrawn ==
  \E i \in DOMAIN draw : draw[i].op = "text" \/ IsCaptionBackground(draw[i])

\* C12: when captions are enabled and the font file does not exist, run()
\* terminates as a fatal failure without retrying: it ends at exit() with no
\* caption background or text drawn and without epd.prepare or epd.display,
\* and takes no step after exit().
C12_MissingFontIsFatal ==
  /\ [](self.add_text /\ ~self.font_exists
          => /\ ~CaptionDrawn
             /\ epd_calls = <<>>
             /\ pc \in {"crop", "icon", "text", "exit"})
  /\ [][pc # "exit"]_vars

C12_Witness ==
  /\ pc = "exit"
  /\ self.add_text
  /\ ~self.font_exists
  /\ draw # <<>>

\* the rectangles handed to draw.rectangle as the caption background
CaptionBackgrounds ==
  {draw[i].xy : i \in {j \in DOMAIN draw : IsCaptionBackground(draw[j])}}

\* C14 as claimed: with box_to_edge the left and right of the caption
\* background equal the crop rectangle's left and right (left_pixel,
\* right_pixel); with box_to_floor its bottom equals bottom_pixel.
C14_BoxPinnedToCropRectangle ==
  \A box \in CaptionBackgrounds :
    /\ self.box_to_edge
         => box[1] = image_crop[1] /\ box[3] = image_crop[3]
    /\ self.box_to_floor => box[4] = image_crop[4]

\* C14 as amended: with box_to_edge the left of the caption background is
\* width_diff (the left edge of the source image on the canvas, which is
\* 0 - left_pixel) and its right is right_pixel; with box_to_floor its
\* bottom is bottom_pixel.
C14_BoxPinnedToVisibleImage ==
  \A box \in CaptionBackgrounds :
    /\ self.box_to_edge => box[1] = width_diff /\ box[3] = image_crop[3]
    /\ self.box_to_floor => box[4] = image_crop[4]

C14_Witness ==
  /\ self.box_to_edge
  /\ self.box_to_floor
  /\ width_diff # 0
  /\ CaptionBackgrounds # {}

\* C15: the caption background rectangle is drawn only when captions are
\* enabled and at least one of the two caption strings is non-empty; when
\* both are empty run() draws no background rectangle and no text.
C15_BackgroundOnlyWithCaption ==
  CaptionDrawn
    => self.add_text /\ (artist_text # <<>> \/ title_text # <<>>)

\* C17: the rectangle passed to the caption background draw always has
\* left <= right and top <= bottom, for every canvas, image, caption box,
\* padding and combination of box_to_floor and box_to_edge.
C17_BackgroundIsOrdered ==
  \A box \in CaptionBackgrounds : box[1] <= box[3] /\ box[2] <= box[4]

IconPrimitive(d) == d.op # "text" /\ ~IsCaptionBackground(d)

\* the surface holds k primitives of the icon, then the caption background
\* and the two texts when captions are enabled, and nothing else
Composition(k) ==
  /\ \A i \in 1 .. k : IconPrimitive(draw[i])
  /\ LET rest == SubSeq(draw, k + 1, Len(draw))
     IN  IF self.add_text
         THEN /\ Len(rest) = 3
              /\ IsCaptionBackground(rest[1])
              /\ rest[2].op = "text"
              /\ rest[3].op = "text"
         ELSE rest = <<>>

\* C18: in every run that reaches the display the steps occur in this
\* order: centre crop, status icon (drawn if and only if icon_shape is not
\* None), caption background, caption texts, then epd.prepare, epd.display,
\* epd.close; epd.display is called at most once and never before the
\* composition has finished.
C18_CompositionThenDisplay ==
  /\ pc = "crop" => draw = <<>> /\ epd_calls = <<>>
  /\ epd_calls \in {<<>>, <<"prepare", "display", "close">>}
  /\ Displayed
       => /\ pc = "done"
          /\ \E k \in 0 .. Len(draw) :
               /\ k > 0 <=> self.icon_shape # None
               /\ Composition(k)

C18_Witness ==
  /\ Displayed
  /\ self.icon_shape # None
  /\ self.add_text

(***************************************************************************)
(* Claims about set_tuple_bottom and set_tuple_sides (SpecTuple).          *)
(***************************************************************************)
\* C19: set_tuple_bottom(R, b) returns a rectangle whose bottom is b and
\* whose left, top and right are R's; set_tuple_sides(R, l, r) returns a
\* rectangle whose left is l and right is r and whose top and bottom are
\* R's; neither changes its argument; and applying the two in either order
\* gives the same rectangle, (l, R.top, r, b).
C19_MutatorsSetOnlyTheirCoordinates ==
  /\ [](/\ pc = "bottom_set"
             => draw_box = <<tup[1], tup[2], tup[3], image_crop[4]>>
        /\ pc = "sides_set"
             => draw_box = <<width_diff, tup[2], image_crop[3], tup[4]>>
        /\ pc \in {"bottom_sides_set", "sides_bottom_set"}
             => draw_box = <<width_diff, tup[2], image_crop[3], image_crop[4]>>)
  /\ [][tup' = tup]_vars

\* both were applied, sides first, and every coordinate but the top changed
C19_Witness ==
  /\ pc = "sides_bottom_set"
  /\ draw_box[1] # tup[1]
  /\ draw_box[3] # tup[3]
  /\ draw_box[4] # tup[4]

(***************************************************************************)
(* Claims about ceiling_multiple (SpecFetch).                              *)
(***************************************************************************)
\* m is the smallest multiple of multiple_ that is at least number
SmallestMultipleAtLeast(m, number, multiple_) ==
  /\ m % multiple_ = 0
  /\ m >= number
  /\ \A j \in number .. m - 1 : j % multiple_ # 0

\* C20: for positive integers number and multiple, ceiling_multiple(number,
\* multiple) is the smallest multiple of multiple that is at least number
\* (number itself when it is a multiple already), and therefore the width
\* and height asked of Stability are never smaller than the display's.
C20_FetchIsCeilingMultiple ==
  pc = "get"
    => /\ SmallestMultipleAtLeast(fetch_height, epd.height, multiple)
       /\ SmallestMultipleAtLeast(fetch_width, epd.width, multiple)
       /\ epd.height % multiple = 0 => fetch_height = epd.height
       /\ epd.width % multiple = 0 => fetch_width = epd.width
       /\ fetch_height >= epd.height
       /\ fetch_width >= epd.width

\* one side is rounded up, the other is a multiple already
C20_Witness ==
  /\ pc = "get"
  /\ fetch_width > epd.width
  /\ fetch_height = epd.height
  /\ multiple > 1


====
